---- MODULE Spec2Model ----
(***************************************************************************)
(* Model of the workspace scanner of auto-readme-ai (src/utils.js):        *)
(* scanWorkspace = identifyProjectType followed by the recursive walk      *)
(* scanImportantFiles.  A path is a sequence of entry names (path.join     *)
(* appends a name); the file system is an input, fixed during a scan.      *)
(***************************************************************************)
EXTENDS Integers, Sequences, FiniteSets, TLC

VARIABLES
    fsTree,         \* directory path -> listing returned by readdirSync
    pkg,            \* what JSON.parse(readFileSync('package.json')) gives
    unreadable,     \* paths on which readdirSync / statSync / readFileSync throw
    ignoreDirs,     \* caller-supplied ignoreDirs
    ignoreFiles,    \* caller-supplied ignoreFiles
    fileSize,       \* path -> stats.size, for the files that are not small
    files,          \* result.files
    directories,    \* result.directories
    fileContents,   \* result.fileContents: sequence of <<key, value>>, keys in insertion order
    projectType,    \* result.projectType
    mainLanguages,  \* result.mainLanguages
    pc,             \* "identify", "scan", "done": position inside scanWorkspace
    stack,          \* active calls of scanImportantFiles, innermost last
    filesSrc,       \* history: entryPath of each element of files
    dirsSrc,        \* history: entryPath of each element of directories
    listed,         \* history: directories whose entries readdirSync returned to the walk
    previous,       \* history: <<the result an earlier call returned>>, <<>> during the first call
    samples,        \* getSourceCodeSamples: the excerpts appended to samples so far
    sampleCount,    \* getSourceCodeSamples: sampleCount
    pass,           \* getSourceCodeSamples: "idle", "priority", "main", "extension", "returned"
    patIdx,         \* getSourceCodeSamples: index of the pattern of the outer loop
    keyIdx,         \* getSourceCodeSamples: index of the key of the inner loop, 0 at the loop head
    quoted,         \* pairs <<a, b>>: the content stored under key a holds the header of key b
    cmdPc,          \* generate_readme: position inside the command handler
    workspaceFolders, \* generate_readme: TRUE when a folder is open
    geminiApiKey,   \* generate_readme: config.get('geminiApiKey') || ''
    userContext,    \* generate_readme: answer to the context prompt
    selectedProvider, \* generate_readme: answer to the provider pick
    apiKey,         \* generate_readme: the Gemini key in use
    generation,     \* history: "notCalled", "returned" or "threw" for the generation call
    thrown,         \* history: <<the error the HTTP or SDK call failed with>>
    overwrite,      \* generate_readme: answer to the overwrite prompt
    readmeFile,     \* README.md at the workspace root: "absent", "existing" or "generated"
    shown           \* messages given to showErrorMessage, oldest first

vars == <<fsTree, pkg, unreadable, ignoreDirs, ignoreFiles, fileSize, files, directories,
          fileContents, projectType, mainLanguages, pc, stack, filesSrc, dirsSrc, listed,
          previous, samples, sampleCount, pass, patIdx, keyIdx, quoted,
          cmdPc, workspaceFolders, geminiApiKey, userContext, selectedProvider, apiKey,
          generation, thrown, overwrite, readmeFile, shown>>

command == <<cmdPc, workspaceFolders, geminiApiKey, userContext, selectedProvider, apiKey,
             generation, thrown, overwrite, readmeFile, shown>>

sampler == <<samples, sampleCount, pass, patIdx, keyIdx, quoted>>

inputs == <<fsTree, pkg, unreadable, ignoreDirs, ignoreFiles, fileSize>>

----------------------------------------------------------------------------
(* Bounds of the explored inputs *)

MaxRootFiles == 2       \* marker-like files listed in the root, in every order
MaxFiller == 72         \* numbered source files of the large trees
ChainDepth == 7         \* nesting depth of the deep trees

----------------------------------------------------------------------------
(* Sequence helpers *)

Range(s) == {s[i] : i \in 1..Len(s)}

Includes(s, x) == \E i \in 1..Len(s) : s[i] = x

Last(s) == s[Len(s)]

RECURSIVE SeqsOfDistinct(_, _)
SeqsOfDistinct(S, n) ==
    IF n = 0 THEN {<<>>}
    ELSE LET shorter == SeqsOfDistinct(S, n - 1)
         IN  shorter \cup
             {Append(p[1], p[2]) :
                 p \in {q \in shorter \X S : Len(q[1]) = n - 1 /\ q[2] \notin Range(q[1])}}

----------------------------------------------------------------------------
(* Names and the string functions applied to them *)

FillerName(i) == "f" \o ToString(i) \o ".js"

FillerNames == {FillerName(i) : i \in 1..(MaxFiller + 1)}

\* String.prototype.toLowerCase on the names of the model
toLowerCase(s) ==
    CASE s = "README.md" -> "readme.md"
      [] s = "LICENSE" -> "license"
      [] s = "LICENSE.txt" -> "license.txt"
      [] s = "Dockerfile" -> "dockerfile"
      [] s = "Gemfile" -> "gemfile"
      [] s = "Cargo.toml" -> "cargo.toml"
      [] s = "Main.jsx" -> "main.jsx"
      [] s = "App.tsx" -> "app.tsx"
      [] s = "Build" -> "build"
      [] s = ".DS_Store" -> ".ds_store"
      [] OTHER -> s

\* path.extname on the names of the model (a leading dot starts no extension)
extname(s) ==
    CASE s \in FillerNames \cup {"f.js", "index.js", "reindex.js"} -> ".js"
      [] s \in {"package.json", "composer.json"} -> ".json"
      [] s \in {"requirements.txt", "LICENSE.txt", "license.txt"} -> ".txt"
      [] s \in {"setup.py", "main.py", "__init__.py"} -> ".py"
      [] s \in {"pyproject.toml", "Cargo.toml", "cargo.toml"} -> ".toml"
      [] s \in {"pom.xml"} -> ".xml"
      [] s \in {"go.mod"} -> ".mod"
      [] s \in {"docker-compose.yml"} -> ".yml"
      [] s \in {"README.md", "readme.md"} -> ".md"
      [] s \in {"index.ts"} -> ".ts"
      [] s \in {"Main.jsx", "main.jsx"} -> ".jsx"
      [] s \in {"App.tsx", "app.tsx"} -> ".tsx"
      [] s \in {"app.rs"} -> ".rs"
      [] s \in {"logo.png"} -> ".png"
      [] s \in {"notes.bin"} -> ".bin"
      [] OTHER -> ""

\* String.prototype.startsWith('license') on lowercased names of the model
startsWithLicense(s) == s \in {"license", "license.txt", "license.md"}

\* fileName.startsWith('main.') || fileName.startsWith('index.')
startsWithMainOrIndex(s) == s \in {"main.jsx", "index.ts", "index.js", "main.py"}

\* path.join(dir, name)
join(dir, name) == Append(dir, name)

\* path.basename(p)
basename(p) == Last(p)

RECURSIVE CommonPrefixLen(_, _)
CommonPrefixLen(a, b) ==
    IF a # <<>> /\ b # <<>> /\ Head(a) = Head(b)
    THEN 1 + CommonPrefixLen(Tail(a), Tail(b))
    ELSE 0

\* path.relative(from, to): climb out of what is left of from, then descend into to
relative(from, to) ==
    LET k == CommonPrefixLen(from, to)
    IN  [i \in 1..(Len(from) - k) |-> ".."] \o SubSeq(to, k + 1, Len(to))

----------------------------------------------------------------------------
(* result.fileContents: a JavaScript object, keys kept in insertion order *)

ObjectKeys(obj) == [i \in 1..Len(obj) |-> obj[i][1]]

HasKey(obj, k) == \E i \in 1..Len(obj) : obj[i][1] = k

Get(obj, k) == obj[CHOOSE i \in 1..Len(obj) : obj[i][1] = k][2]

\* obj[k] = v: an existing key keeps its position, a new key goes last
SetKey(obj, k, v) ==
    IF HasKey(obj, k)
    THEN [i \in 1..Len(obj) |-> IF obj[i][1] = k THEN <<k, v>> ELSE obj[i]]
    ELSE Append(obj, <<k, v>>)

\* the size of every file the input gives no size for
SmallFileSize == 1

\* fs.statSync(p).size
StatSize(p) == IF p \in DOMAIN fileSize THEN fileSize[p] ELSE SmallFileSize

\* the JavaScript value undefined, as an answer of a prompt that was dismissed
Undefined == "undefined"

\* the value readFileSync gives for the file at path p, parsed (form "json") or
\* as text: the whole file, no truncation marker
Content(p, form) == [from |-> p, form |-> form, bytes |-> StatSize(p), marker |-> FALSE]

\* the first maxFileSize bytes of the file at path p, then the truncation marker
Truncated(p, maxFileSize) ==
    [from |-> p, form |-> "text", bytes |-> maxFileSize, marker |-> TRUE]

----------------------------------------------------------------------------
(* The file system as the scan sees it *)

Entry(name, kind) == [name |-> name, kind |-> kind]

isFile(e) == e.kind = "file"

isDirectory(e) == e.kind = "dir"

\* fs.readdirSync(p, {withFileTypes: true}) throws
ReaddirThrows(tree, bad, p) == p \notin DOMAIN tree \/ p \in bad

\* fs.statSync / fs.readFileSync / fs.openSync on p throw
ReadThrows(tree, bad, p) ==
    \/ p = <<>>
    \/ p \in bad
    \/ SubSeq(p, 1, Len(p) - 1) \notin DOMAIN tree
    \/ ~\E i \in 1..Len(tree[SubSeq(p, 1, Len(p) - 1)]) :
          /\ tree[SubSeq(p, 1, Len(p) - 1)][i].name = Last(p)
          /\ tree[SubSeq(p, 1, Len(p) - 1)][i].kind = "file"

----------------------------------------------------------------------------
(* Importance oracle and budget policy *)

importantRootFiles ==
    {"readme.md", "license", "license.md", "license.txt",
     "package.json", "setup.py", "requirements.txt", "pyproject.toml",
     "cargo.toml", "gemfile", "composer.json", "go.mod",
     "dockerfile", "docker-compose.yml", "makefile", "cmakelists.txt",
     ".gitignore", ".travis.yml", ".github", "contributing.md",
     "changelog.md", "history.md", "code_of_conduct.md", "main.py", "app.py"}

importantExtensions ==
    {".md", ".rst", ".txt", ".py", ".js", ".php",
     ".json", ".yaml", ".yml", ".toml", ".ini", ".cfg",
     ".ts", ".java", ".c", ".cpp", ".h", ".hpp",
     ".go", ".rb", ".cs", ".swift", ".kt", ".rs",
     ".html", ".css"}

isLikelyImportantFile(filePath) ==
    LET fileName == toLowerCase(basename(filePath))
        ext == toLowerCase(extname(basename(filePath)))
    IN  \/ fileName \in importantRootFiles
        \/ ext \in importantExtensions
        \/ startsWithMainOrIndex(fileName) /\ ext \in importantExtensions

unimportantDirs ==
    {"node_modules", ".git", ".github", ".vscode", ".idea",
     "venv", "env", ".env", "__pycache__", ".pytest_cache",
     "build", "dist", "out", "target", "bin", "obj",
     "coverage", "logs", "tmp", "temp", "cache"}

isLikelyImportantDirectory(dirName) == toLowerCase(dirName) \notin unimportantDirs

defaultIgnoreDirs == <<".git", "node_modules", ".vscode", "dist", "build", "out">>

defaultIgnoreFiles == <<".DS_Store", ".gitignore", "package-lock.json", "yarn.lock">>

baseMax == 50

calculateMaxFiles(type) ==
    CASE type = "node" -> baseMax + 20
      [] type = "python" -> baseMax + 10
      [] type = "java" -> baseMax + 15
      [] type = "rust" -> baseMax + 5
      [] type = "go" -> baseMax + 10
      [] OTHER -> baseMax

getSourceFileExtensions(type, languages) ==
    CASE type = "node" ->
            IF Includes(languages, "react")
            THEN <<".jsx", ".tsx", ".js", ".ts">>
            ELSE <<".js", ".jsx", ".ts", ".tsx">>
      [] type = "python" -> <<".py">>
      [] type = "java" -> <<".java">>
      [] type = "rust" -> <<".rs">>
      [] type = "go" -> <<".go">>
      [] type = "ruby" -> <<".rb">>
      [] type = "php" -> <<".php">>
      [] OTHER -> <<".js", ".py", ".java", ".c", ".cpp", ".h", ".go", ".rb", ".php", ".cs">>

\* extensions (and three bare names) whose content the walk reads for an important file
readableExtensions ==
    {".md", ".txt", ".json", ".js", ".jsx", ".ts", ".tsx", ".py", ".java", ".c", ".cpp", ".h",
     ".go", ".rb", ".php", ".cs", ".html", ".css", ".yml", ".yaml", ".toml",
     ".ini", ".cfg"}

isTextFile(fileName) ==
    \/ toLowerCase(extname(fileName)) \in readableExtensions
    \/ toLowerCase(fileName) \in {"dockerfile", "makefile", "license"}

maxDepth == 5

----------------------------------------------------------------------------
(* identifyProjectType: one pass over the root's entries *)

\* the typescript test of the parsed manifest
hasTypescript(p) ==
    /\ p.hasDevDependencies
    /\ \/ "typescript" \in p.devDependencies
       \/ p.hasDependencies /\ "typescript" \in p.dependencies

\* mutant of frameworkTags: the angular test is lost
frameworkTagsNoAngular(p) ==
    IF p.hasDependencies
    THEN (IF "react" \in p.dependencies THEN <<"react">> ELSE <<>>)
         \o (IF "vue" \in p.dependencies THEN <<"vue">> ELSE <<>>)
         \o (IF "express" \in p.dependencies THEN <<"express">> ELSE <<>>)
         \o (IF "next" \in p.dependencies THEN <<"nextjs">> ELSE <<>>)
    ELSE <<>>

\* the framework tags of the parsed manifest, in the order they are pushed
frameworkTags(p) ==
    IF p.hasDependencies
    THEN (IF "react" \in p.dependencies THEN <<"react">> ELSE <<>>)
         \o (IF "vue" \in p.dependencies THEN <<"vue">> ELSE <<>>)
         \o (IF "angular" \in p.dependencies THEN <<"angular">> ELSE <<>>)
         \o (IF "express" \in p.dependencies THEN <<"express">> ELSE <<>>)
         \o (IF "next" \in p.dependencies THEN <<"nextjs">> ELSE <<>>)
    ELSE <<>>

\* mutant of dockerNames: the compose file is not recognised
dockerNamesDockerfileOnly == {"dockerfile"}

\* the names that add the docker tag
dockerNames == {"dockerfile", "docker-compose.yml"}

\* mutant of identifyPackageJson: type and language are set inside the try, after the parse
identifyPackageJsonInsideTry(tree, bad, p, rootPath, res) ==
    IF ReadThrows(tree, bad, join(rootPath, "package.json")) \/ ~p.parses
    THEN res
    ELSE [res EXCEPT
            !.projectType = "node",
            !.fileContents = SetKey(@, <<"package.json">>,
                                    Content(join(rootPath, "package.json"), "json")),
            !.mainLanguages = (Append(@, "javascript")
                               \o (IF hasTypescript(p) THEN <<"typescript">> ELSE <<>>))
                              \o frameworkTags(p)]

\* the package.json branch: type and language first, then the manifest inside a try
identifyPackageJson(tree, bad, p, rootPath, res) ==
    LET r == [res EXCEPT !.projectType = "node", !.mainLanguages = Append(@, "javascript")]
    IN  IF ReadThrows(tree, bad, join(rootPath, "package.json")) \/ ~p.parses
        THEN r
        ELSE [r EXCEPT
                !.fileContents = SetKey(@, <<"package.json">>,
                                        Content(join(rootPath, "package.json"), "json")),
                !.mainLanguages = (@ \o (IF hasTypescript(p) THEN <<"typescript">> ELSE <<>>))
                                  \o frameworkTags(p)]

\* the body of the for loop for one entry; res = [projectType, mainLanguages, fileContents]
identifyEntry(tree, bad, p, rootPath, res, entry) ==
    LET fileName == toLowerCase(entry.name)
        setType(t, lang) == [res EXCEPT !.projectType = t,
                                        !.mainLanguages = Append(@, lang)]
    IN  IF ~isFile(entry) THEN res
        ELSE IF fileName = "package.json" THEN
            identifyPackageJson(tree, bad, p, rootPath, res)
        ELSE IF fileName \in {"requirements.txt", "setup.py", "pyproject.toml"} THEN
            LET r == setType("python", "python")
            IN  IF fileName = "requirements.txt"
                   /\ ~ReadThrows(tree, bad, join(rootPath, "requirements.txt"))
                THEN [r EXCEPT !.fileContents =
                          SetKey(@, <<"requirements.txt">>,
                                 Content(join(rootPath, "requirements.txt"), "text"))]
                ELSE r
        ELSE IF fileName = "pom.xml" THEN setType("java", "java")
        ELSE IF fileName = "cargo.toml" THEN setType("rust", "rust")
        ELSE IF fileName = "go.mod" THEN setType("go", "go")
        ELSE IF fileName = "gemfile" THEN setType("ruby", "ruby")
        ELSE IF fileName = "composer.json" THEN setType("php", "php")
        ELSE IF fileName \in dockerNames THEN
            [res EXCEPT !.mainLanguages = Append(@, "docker")]
        ELSE IF fileName = "readme.md" THEN
            IF ReadThrows(tree, bad, join(rootPath, entry.name)) THEN res
            ELSE [res EXCEPT !.fileContents =
                      SetKey(@, <<"README.md">>, Content(join(rootPath, entry.name), "text"))]
        ELSE IF startsWithLicense(fileName) THEN
            IF ReadThrows(tree, bad, join(rootPath, entry.name)) THEN res
            ELSE [res EXCEPT !.fileContents =
                      SetKey(@, <<"LICENSE">>, Content(join(rootPath, entry.name), "text"))]
        ELSE res

\* the for loop over the entries, in listing order
RECURSIVE identifyEntries(_, _, _, _, _, _)
identifyEntries(tree, bad, p, rootPath, res, entries) ==
    IF entries = <<>> THEN res
    ELSE identifyEntries(tree, bad, p, rootPath,
                         identifyEntry(tree, bad, p, rootPath, res, Head(entries)),
                         Tail(entries))

\* mutant of identifyProjectType: the entries of the root's sub-directories are classified too
identifyProjectTypeDeep(tree, bad, p, rootPath, res) ==
    IF ReaddirThrows(tree, bad, rootPath) THEN res
    ELSE LET below(e) == IF isDirectory(e) /\ join(rootPath, e.name) \in DOMAIN tree
                         THEN tree[join(rootPath, e.name)] ELSE <<>>
             F[i \in 0..Len(tree[rootPath])] ==
                 IF i = 0 THEN <<>> ELSE F[i - 1] \o below(tree[rootPath][i])
         IN  identifyEntries(tree, bad, p, rootPath, res,
                             tree[rootPath] \o F[Len(tree[rootPath])])

\* identifyProjectType(rootPath, result): a failing readdirSync leaves result as it is
identifyProjectType(tree, bad, p, rootPath, res) ==
    IF ReaddirThrows(tree, bad, rootPath) THEN res
    ELSE identifyEntries(tree, bad, p, rootPath, res, tree[rootPath])

----------------------------------------------------------------------------
(* scanImportantFiles: the recursive walk, one frame per active call *)

dirsToIgnore == defaultIgnoreDirs \o ignoreDirs

filesToIgnore == defaultIgnoreFiles \o ignoreFiles

\* a call scanImportantFiles(dir, result, dirsToIgnore, filesToIgnore, depth) about to start
Call(dir, depth) ==
    [dir |-> dir, depth |-> depth, phase |-> "enter", entries |-> <<>>, idx |-> 1,
     sourceExtensions |-> <<>>, maxFiles |-> 0]

Top == stack[Len(stack)]

CurrentEntry == Top.entries[Top.idx]

InLoop == pc = "scan" /\ Top.phase = "loop" /\ Top.idx <= Len(Top.entries)

\* the call on top of the stack returns; the outermost return ends scanWorkspace
Return ==
    /\ stack' = SubSeq(stack, 1, Len(stack) - 1)
    /\ pc' = IF Len(stack) = 1 THEN "done" ELSE "scan"

\* mutant of tooDeep: one level more is listed
tooDeepOffByOne(depth) == depth > maxDepth + 1

\* the depth test at the head of scanImportantFiles
tooDeep(depth) == depth > maxDepth

\* mutant of descends: both directory tests are lost
descendsAlways(dirName) == TRUE

\* the directory tests of the loop: not ignored by name and likely important
descends(dirName) == ~Includes(dirsToIgnore, dirName) /\ isLikelyImportantDirectory(dirName)

\* mutant of quotaReached: > instead of >=
quotaReachedOffByOne(contents, maxFiles) == Len(ObjectKeys(contents)) > maxFiles

\* mutant of quotaReached: the test is lost
quotaNeverReached(contents, maxFiles) == FALSE

\* the quota test of the loop
quotaReached(contents, maxFiles) == Len(ObjectKeys(contents)) >= maxFiles

\* mutant of contentKey: the content is stored under the full path
contentKeyFullPath(relativePath, entryPath) == entryPath

\* the key under which the walk stores a content
contentKey(relativePath, entryPath) == relativePath

\* maxFileSize of the important-file branch
maxFileSizeImportant == 50 * 1024

\* maxFileSize of the source-extension branch
maxFileSizeSource == 30 * 1024

\* mutant of exceeds: >= instead of >
exceedsAtCeiling(size, maxFileSize) == size >= maxFileSize

\* the size test of both read branches
exceeds(size, maxFileSize) == size > maxFileSize

\* the text the walk stores for a file: the whole file, or its first maxFileSize bytes
\* and the marker
readText(entryPath, maxFileSize) ==
    IF exceeds(StatSize(entryPath), maxFileSize)
    THEN Truncated(entryPath, maxFileSize)
    ELSE Content(entryPath, "text")

\* the file branch of the loop; res = [files, fileContents, filesSrc]
visitFile(frame, fileName, res) ==
    LET entryPath == join(frame.dir, fileName)
        relativePath == relative(frame.dir, entryPath)
        listedRes == [res EXCEPT !.files = Append(@, relativePath),
                                 !.filesSrc = Append(@, entryPath)]
        stored(maxFileSize) ==
            [listedRes EXCEPT !.fileContents =
                SetKey(@, contentKey(relativePath, entryPath),
                       readText(entryPath, maxFileSize))]
    IN  IF Includes(filesToIgnore, fileName) THEN res
        ELSE IF quotaReached(res.fileContents, frame.maxFiles) THEN
            IF isLikelyImportantFile(entryPath) THEN listedRes ELSE res
        ELSE IF isLikelyImportantFile(entryPath) THEN
            IF isTextFile(fileName) /\ ~ReadThrows(fsTree, unreadable, entryPath)
            THEN stored(maxFileSizeImportant) ELSE listedRes
        ELSE IF Includes(frame.sourceExtensions, toLowerCase(extname(fileName))) THEN
            IF ~ReadThrows(fsTree, unreadable, entryPath)
            THEN stored(maxFileSizeSource) ELSE listedRes
        ELSE res

----------------------------------------------------------------------------
(* The explored inputs: directory trees, manifests, failing paths, ignore lists *)

RootFileNames ==
    {"package.json", "requirements.txt", "setup.py", "pyproject.toml", "pom.xml",
     "Cargo.toml", "go.mod", "Gemfile", "composer.json", "Dockerfile",
     "docker-compose.yml", "README.md", "LICENSE.txt", "notes.bin", ".gitignore"}

FileEntries(names) == [i \in 1..Len(names) |-> Entry(names[i], "file")]

\* the root's file entries, every choice and every order up to MaxRootFiles
RootListings == {FileEntries(names) : names \in SeqsOfDistinct(RootFileNames, MaxRootFiles)}

ShortRootListings == {FileEntries(names) : names \in SeqsOfDistinct(RootFileNames, 1)}

\* only the root
FlatTree(rf) == (<<>> :> rf)

\* the layout of the scanWorkspace test, with a source directory and a socket
TestTree(rf) ==
    (<<>> :> (rf \o <<Entry("f.js", "file"), Entry("subdir", "dir"),
                      Entry("sock", "other"), Entry("src", "dir")>>))
    @@ (<<"subdir">> :> <<Entry("f.js", "file")>>)
    @@ (<<"src">> :> <<Entry("index.ts", "file"), Entry("Main.jsx", "file"),
                       Entry("app.rs", "file"), Entry("logo.png", "file"),
                       Entry(".DS_Store", "file"), Entry("go.mod", "file")>>)

\* ignored and unimportant directories, at the root and below it
IgnoredTree(rf) ==
    (<<>> :> (<<Entry("node_modules", "dir"), Entry(".git", "dir"), Entry("venv", "dir"),
                Entry("Build", "dir"), Entry("src", "dir")>> \o rf))
    @@ (<<"node_modules">> :> <<Entry("f.js", "file"), Entry("subdir", "dir")>>)
    @@ (<<"node_modules", "subdir">> :> <<Entry("index.ts", "file")>>)
    @@ (<<".git">> :> <<Entry("README.md", "file")>>)
    @@ (<<"venv">> :> <<Entry("setup.py", "file")>>)
    @@ (<<"Build">> :> <<Entry("f.js", "file")>>)
    @@ (<<"src">> :> <<Entry("dist", "dir"), Entry("index.ts", "file")>>)
    @@ (<<"src", "dist">> :> <<Entry("f.js", "file")>>)

\* a root that holds nothing but an ignored directory
OnlyIgnoredTree ==
    (<<>> :> <<Entry("node_modules", "dir")>>)
    @@ (<<"node_modules">> :> <<Entry("f.js", "file")>>)

DirName(i) == "d" \o ToString(i)

ChainPath(i) == [j \in 1..i |-> DirName(j)]

\* d1/d2/.../dn: the directory at depth i holds d(i+1) and the file f<i>.js
DeepTree(rf, n) ==
    [p \in {ChainPath(i) : i \in 0..n} |->
        (IF p = <<>> THEN rf ELSE <<>>)
        \o (IF Len(p) < n THEN <<Entry(DirName(Len(p) + 1), "dir")>> ELSE <<>>)
        \o (IF Len(p) > 0 THEN <<Entry(FillerName(Len(p)), "file")>> ELSE <<>>)]

FillerPerDir == 12

\* k numbered source files, FillerPerDir to a directory d1, d2, ..., then a source directory
BigTree(rf, k) ==
    LET m == (k + FillerPerDir - 1) \div FillerPerDir
    IN  (<<>> :> (rf \o [j \in 1..m |-> Entry(DirName(j), "dir")] \o <<Entry("src", "dir")>>))
        @@ [p \in {<<DirName(j)>> : j \in 1..m} |->
               LET j == CHOOSE i \in 1..m : p = <<DirName(i)>>
                   first == (j - 1) * FillerPerDir
                   n == IF j * FillerPerDir <= k THEN FillerPerDir ELSE k - first
               IN  [i \in 1..n |-> Entry(FillerName(first + i), "file")]]
        @@ (<<"src">> :> <<Entry("index.ts", "file"), Entry("Main.jsx", "file"),
                           Entry("app.rs", "file"), Entry("logo.png", "file"),
                           Entry("f.js", "file")>>)

DepNames == {"typescript", "react", "express"}

DefaultPkg ==
    [parses |-> TRUE, hasDependencies |-> TRUE, dependencies |-> {"express"},
     hasDevDependencies |-> TRUE, devDependencies |-> {"typescript"}]

\* every listed dependency has a non-empty version string, hence a truthy value
PkgVariants ==
    {q \in [parses : BOOLEAN, hasDependencies : BOOLEAN, dependencies : SUBSET DepNames,
            hasDevDependencies : BOOLEAN, devDependencies : SUBSET DepNames] :
        /\ q.hasDependencies \/ q.dependencies = {}
        /\ q.hasDevDependencies \/ q.devDependencies = {}
        /\ q.parses \/ (~q.hasDependencies /\ ~q.hasDevDependencies)}

FrameworkNames == {"react", "vue", "angular", "express", "next"}

\* manifests with at most one entry in each group, over every recognised name
FrameworkPkgs ==
    {[parses |-> TRUE, hasDependencies |-> d # {}, dependencies |-> d,
      hasDevDependencies |-> v # {}, devDependencies |-> v] :
        d \in {{}} \cup {{n} : n \in FrameworkNames \cup {"typescript"}},
        v \in {{}} \cup {{n} : n \in FrameworkNames \cup {"typescript"}}}

UnparsablePkg ==
    [parses |-> FALSE, hasDependencies |-> FALSE, dependencies |-> {},
     hasDevDependencies |-> FALSE, devDependencies |-> {}]

Input(tree, p, bad, idirs, ifiles) ==
    [tree |-> tree, pkg |-> p, bad |-> bad, ignoreDirs |-> idirs, ignoreFiles |-> ifiles]

FailingPaths ==
    {<<>>, <<"subdir">>, <<"f.js">>, <<"src", "index.ts">>, <<"README.md">>,
     <<"package.json">>, <<"requirements.txt">>, <<"LICENSE.txt">>}

Inputs ==
    {Input(FlatTree(rf), DefaultPkg, {}, <<>>, <<>>) : rf \in RootListings}
    \cup {Input(TestTree(rf), DefaultPkg, {}, <<>>, <<>>) : rf \in RootListings}
    \cup {Input(TestTree(FileEntries(<<"package.json">>)), p, {}, <<>>, <<>>) : p \in PkgVariants}
    \cup {Input(BigTree(rf, MaxFiller), DefaultPkg, {}, <<>>, <<>>) : rf \in ShortRootListings}
    \cup {Input(DeepTree(rf, ChainDepth), DefaultPkg, {}, <<>>, <<>>) : rf \in ShortRootListings}
    \cup {Input(IgnoredTree(rf), DefaultPkg, {}, <<>>, <<>>) : rf \in ShortRootListings}
    \cup {Input(OnlyIgnoredTree, DefaultPkg, {}, <<>>, <<>>)}
    \cup {Input(TestTree(rf), DefaultPkg, {}, idirs, ifiles) :
             rf \in ShortRootListings,
             idirs \in {<<>>, <<"subdir">>},
             ifiles \in {<<>>, <<"README.md">>, <<"f.js", "package.json">>,
                         <<"requirements.txt">>}}
    \cup {Input(TestTree(rf), DefaultPkg, {bad}, <<>>, <<>>) :
             rf \in ShortRootListings, bad \in FailingPaths}
    \cup {Input(FlatTree(FileEntries(<<"package.json">>)), p, {}, <<>>, <<>>) :
             p \in FrameworkPkgs}
    \cup {Input(FlatTree(rf), UnparsablePkg, {}, <<>>, <<>>) :
             rf \in {l \in RootListings : \E i \in 1..Len(l) : l[i].name = "package.json"}}
    \cup {Input(TestTree(rf), DefaultPkg, {<<"f.js">>, <<"subdir">>}, <<>>, <<>>) :
             rf \in ShortRootListings}

\* no file is larger than SmallFileSize
NoSizes == [p \in {} |-> 0]

\* sizes around the two ceilings, for an important file and for a file that is
\* read only for its source extension
SizesAtCeilings ==
    {(<<"src", "index.ts">> :> a) @@ (<<"src", "Main.jsx">> :> b) :
        a \in {maxFileSizeSource + 1, maxFileSizeImportant - 1, maxFileSizeImportant,
               maxFileSizeImportant + 1},
        b \in {maxFileSizeSource - 1, maxFileSizeSource, maxFileSizeSource + 1,
               maxFileSizeImportant + 1}}

\* the sizes tried with an input: the ceilings are tried on the test layout
SizesFor(in) ==
    IF in = Input(TestTree(FileEntries(<<"package.json">>)), DefaultPkg, {}, <<>>, <<>>)
    THEN SizesAtCeilings \cup {NoSizes}
    ELSE {NoSizes}

Init ==
    /\ \E in \in Inputs :
          /\ fsTree = in.tree
          /\ fileSize \in SizesFor(in)
          /\ pkg = in.pkg
          /\ unreadable = in.bad
          /\ ignoreDirs = in.ignoreDirs
          /\ ignoreFiles = in.ignoreFiles
    /\ files = <<>>
    /\ directories = <<>>
    /\ fileContents = <<>>
    /\ projectType = "unknown"
    /\ mainLanguages = <<>>
    /\ pc = "identify"
    /\ stack = <<>>
    /\ filesSrc = <<>>
    /\ dirsSrc = <<>>
    /\ listed = {}
    /\ previous = <<>>
    /\ samples = <<>>
    /\ sampleCount = 0
    /\ pass = "idle"
    /\ patIdx = 1
    /\ keyIdx = 0
    /\ quoted = {}
    /\ cmdPc = "idle"
    /\ workspaceFolders = TRUE
    /\ geminiApiKey = ""
    /\ userContext = Undefined
    /\ selectedProvider = Undefined
    /\ apiKey = ""
    /\ generation = "notCalled"
    /\ thrown = <<>>
    /\ overwrite = Undefined
    /\ readmeFile = "absent"
    /\ shown = <<>>

----------------------------------------------------------------------------
(* Actions *)

\* scanWorkspace up to the first call of the walk: the classifier runs on the fresh result
CallIdentifyProjectType ==
    /\ pc = "identify"
    /\ LET res == identifyProjectType(fsTree, unreadable, pkg, <<>>,
                      [projectType |-> projectType, mainLanguages |-> mainLanguages,
                       fileContents |-> fileContents])
       IN  /\ projectType' = res.projectType
           /\ mainLanguages' = res.mainLanguages
           /\ fileContents' = res.fileContents
    /\ pc' = "scan"
    /\ stack' = <<Call(<<>>, 0)>>
    /\ UNCHANGED <<inputs, sampler, command, previous, files, directories, filesSrc, dirsSrc, listed>>

\* mutant of EnterDirectory: a failing readdirSync is not caught and ends the whole walk
EnterDirectoryUncaught ==
    /\ pc = "scan"
    /\ Top.phase = "enter"
    /\ IF ReaddirThrows(fsTree, unreadable, Top.dir) /\ ~tooDeep(Top.depth)
       THEN stack' = <<>> /\ pc' = "done" /\ UNCHANGED listed
       ELSE IF tooDeep(Top.depth)
       THEN Return /\ UNCHANGED listed
       ELSE /\ stack' = [stack EXCEPT ![Len(stack)] =
                            [@ EXCEPT !.phase = "loop",
                                      !.entries = fsTree[Top.dir],
                                      !.sourceExtensions =
                                          getSourceFileExtensions(projectType, mainLanguages),
                                      !.maxFiles = calculateMaxFiles(projectType)]]
            /\ listed' = listed \cup {Top.dir}
            /\ pc' = pc
    /\ UNCHANGED <<inputs, sampler, command, previous, files, directories, fileContents, projectType, mainLanguages,
                   filesSrc, dirsSrc>>

\* head of scanImportantFiles: depth test, readdirSync, extensions and quota of the call
EnterDirectory ==
    /\ pc = "scan"
    /\ Top.phase = "enter"
    /\ IF tooDeep(Top.depth) \/ ReaddirThrows(fsTree, unreadable, Top.dir)
       THEN Return /\ UNCHANGED listed
       ELSE /\ stack' = [stack EXCEPT ![Len(stack)] =
                            [@ EXCEPT !.phase = "loop",
                                      !.entries = fsTree[Top.dir],
                                      !.sourceExtensions =
                                          getSourceFileExtensions(projectType, mainLanguages),
                                      !.maxFiles = calculateMaxFiles(projectType)]]
            /\ listed' = listed \cup {Top.dir}
            /\ pc' = pc
    /\ UNCHANGED <<inputs, sampler, command, previous, files, directories, fileContents, projectType, mainLanguages,
                   filesSrc, dirsSrc>>

\* loop body for a directory entry
VisitDirectory ==
    /\ InLoop
    /\ isDirectory(CurrentEntry)
    /\ LET dirName == CurrentEntry.name
           entryPath == join(Top.dir, dirName)
           relativePath == relative(Top.dir, entryPath)
           next == [stack EXCEPT ![Len(stack)].idx = @ + 1]
       IN  IF descends(dirName)
           THEN /\ directories' = Append(directories, relativePath)
                /\ dirsSrc' = Append(dirsSrc, entryPath)
                /\ stack' = Append(next, Call(entryPath, Top.depth + 1))
           ELSE /\ stack' = next
                /\ UNCHANGED <<directories, dirsSrc>>
    /\ UNCHANGED <<inputs, sampler, command, previous, files, fileContents, projectType, mainLanguages, pc, filesSrc, listed>>

\* loop body for a file entry
VisitFile ==
    /\ InLoop
    /\ isFile(CurrentEntry)
    /\ LET res == visitFile(Top, CurrentEntry.name,
                            [files |-> files, fileContents |-> fileContents,
                             filesSrc |-> filesSrc])
       IN  /\ files' = res.files
           /\ fileContents' = res.fileContents
           /\ filesSrc' = res.filesSrc
    /\ stack' = [stack EXCEPT ![Len(stack)].idx = @ + 1]
    /\ UNCHANGED <<inputs, sampler, command, previous, directories, projectType, mainLanguages, pc, dirsSrc, listed>>

\* loop body for an entry that is neither a directory nor a file
VisitOther ==
    /\ InLoop
    /\ ~isDirectory(CurrentEntry)
    /\ ~isFile(CurrentEntry)
    /\ stack' = [stack EXCEPT ![Len(stack)].idx = @ + 1]
    /\ UNCHANGED <<inputs, sampler, command, previous, files, directories, fileContents, projectType, mainLanguages, pc,
                   filesSrc, dirsSrc, listed>>

\* the loop has run out of entries
ReturnFromDirectory ==
    /\ pc = "scan"
    /\ Top.phase = "loop"
    /\ Top.idx > Len(Top.entries)
    /\ Return
    /\ UNCHANGED <<inputs, sampler, command, previous, files, directories, fileContents, projectType, mainLanguages,
                   filesSrc, dirsSrc, listed>>

\* the object scanWorkspace works on and returns
result ==
    [files |-> files, directories |-> directories, fileContents |-> fileContents,
     projectType |-> projectType, mainLanguages |-> mainLanguages]

\* mutant of newResult: the object of the earlier call is used again
reusedResult == result

\* const result = {...} at the head of scanWorkspace
newResult ==
    [files |-> <<>>, directories |-> <<>>, fileContents |-> <<>>,
     projectType |-> "unknown", mainLanguages |-> <<>>]

\* scanWorkspace is called once more, with the same arguments on the same tree
CallScanWorkspaceAgain ==
    /\ pc = "done"
    /\ previous = <<>>
    /\ previous' = <<result>>
    /\ files' = newResult.files
    /\ directories' = newResult.directories
    /\ fileContents' = newResult.fileContents
    /\ projectType' = newResult.projectType
    /\ mainLanguages' = newResult.mainLanguages
    /\ pc' = "identify"
    /\ stack' = <<>>
    /\ filesSrc' = <<>>
    /\ dirsSrc' = <<>>
    /\ listed' = {}
    /\ UNCHANGED <<inputs, sampler, command>>

Next ==
    \/ CallScanWorkspaceAgain
    \/ CallIdentifyProjectType
    \/ EnterDirectory
    \/ VisitDirectory
    \/ VisitFile
    \/ VisitOther
    \/ ReturnFromDirectory

Spec == Init /\ [][Next]_vars

----------------------------------------------------------------------------
(* getSourceCodeSamples *)

\* a regular expression /^stem\.(e1|e2)$/i (anchored) or /stem\.(e1|e2)$/i
Pattern(anchored, stem, exts) == [anchored |-> anchored, stem |-> stem, exts |-> exts]

\* what stands before the last dot of a lowercased name of the model; the names
\* not listed end with no stem of a pattern
Stem(s) ==
    CASE s \in {"index.js", "index.ts"} -> "index"
      [] s \in {"main.jsx", "main.py"} -> "main"
      [] s = "app.tsx" -> "app"
      [] s = "reindex.js" -> "reindex"
      [] s = "readme.md" -> "readme"
      [] s = "__init__.py" -> "__init__"
      [] OTHER -> s

\* String.prototype.endsWith on the stems of the model
endsWith(s, suffix) == s = suffix \/ (s = "reindex" /\ suffix = "index")

\* pattern.test(p) and p.match(pattern) on a path p, case ignored: the path must
\* end with the stem, a dot and one of the extensions, and an anchored pattern
\* leaves room for nothing before the stem
regexTest(pattern, p) ==
    LET n == toLowerCase(Last(p))
    IN  /\ extname(n) \in pattern.exts
        /\ IF pattern.anchored
           THEN Len(p) = 1 /\ Stem(n) = pattern.stem
           ELSE endsWith(Stem(n), pattern.stem)

getPriorityFilesForProjectType(type, languages) ==
    CASE type = "node" ->
            <<Pattern(TRUE, "index", {".js", ".ts"}), Pattern(TRUE, "main", {".js", ".ts"}),
              Pattern(TRUE, "app", {".js", ".ts"})>>
            \o (IF Includes(languages, "react")
                THEN <<Pattern(TRUE, "app", {".jsx", ".tsx"}),
                       Pattern(TRUE, "index", {".jsx", ".tsx"})>>
                ELSE <<>>)
      [] type = "python" ->
            <<Pattern(TRUE, "main", {".py"}), Pattern(TRUE, "app", {".py"}),
              Pattern(TRUE, "__init__", {".py"})>>
      [] type = "java" ->
            <<Pattern(TRUE, "main", {".java"}), Pattern(TRUE, "application", {".java"})>>
      [] type = "rust" -> <<Pattern(TRUE, "main", {".rs"}), Pattern(TRUE, "lib", {".rs"})>>
      [] type = "go" -> <<Pattern(TRUE, "main", {".go"})>>
      [] type = "ruby" ->
            <<Pattern(TRUE, "main", {".rb"}), Pattern(TRUE, "application", {".rb"})>>
      [] type = "php" -> <<Pattern(TRUE, "index", {".php"})>>
      [] OTHER -> <<>>

getMainFilePatterns(type, languages) ==
    (CASE type = "node" ->
            <<Pattern(FALSE, "index", {".js", ".ts"}), Pattern(FALSE, "main", {".js", ".ts"}),
              Pattern(FALSE, "app", {".js", ".ts"})>>
            \o (IF Includes(languages, "react")
                THEN <<Pattern(FALSE, "app", {".js", ".tsx"}),
                       Pattern(FALSE, "index", {".js", ".tsx"})>>
                ELSE <<>>)
      [] type = "python" ->
            <<Pattern(FALSE, "main", {".py"}), Pattern(FALSE, "__init__", {".py"}),
              Pattern(FALSE, "app", {".py"})>>
      [] type = "java" ->
            <<Pattern(FALSE, "main", {".java"}), Pattern(FALSE, "application", {".java"})>>
      [] type = "rust" -> <<Pattern(FALSE, "main", {".rs"}), Pattern(FALSE, "lib", {".rs"})>>
      [] type = "go" -> <<Pattern(FALSE, "main", {".go"})>>
      [] type = "ruby" ->
            <<Pattern(FALSE, "main", {".rb"}), Pattern(FALSE, "application", {".rb"})>>
      [] type = "php" -> <<Pattern(FALSE, "index", {".php"})>>
      [] OTHER -> <<>>)
    \o <<Pattern(FALSE, "readme", {".md"}), Pattern(FALSE, "contributing", {".md"})>>

maxSamples == 10

\* mutant of capReached: > instead of >=
capReachedOffByOne(count) == count > maxSamples

\* the test that breaks out of every loop
capReached(count) == count >= maxSamples

\* mutant of alreadyIncluded: the test is lost
alreadyIncludedNever(text, filePath) == FALSE

\* samples.includes(`Source code (${filePath}):`): the header was appended for
\* filePath itself, or stands in a content that was appended
alreadyIncluded(text, filePath) ==
    \E i \in 1..Len(text) : text[i].path = filePath \/ <<text[i].path, filePath>> \in quoted

\* mutant of Emit: the excerpt is put in front of samples
EmitInFront(filePath) ==
    /\ samples' = <<[path |-> filePath, content |-> Get(fileContents, filePath)]>> \o samples
    /\ sampleCount' = sampleCount + 1

\* samples += `Source code (${filePath}):...`; sampleCount++
Emit(filePath) ==
    /\ samples' = Append(samples, [path |-> filePath, content |-> Get(fileContents, filePath)])
    /\ sampleCount' = sampleCount + 1

priorityFiles == getPriorityFilesForProjectType(projectType, mainLanguages)

mainFilePatterns == getMainFilePatterns(projectType, mainLanguages)

keys == ObjectKeys(fileContents)

workspaceData ==
    <<inputs, files, directories, fileContents, projectType, mainLanguages, pc, stack,
      filesSrc, dirsSrc, listed, previous, quoted, command>>

\* head of the loop over priorityFiles
PriorityPattern ==
    /\ pass = "priority" /\ keyIdx = 0
    /\ IF patIdx > Len(priorityFiles) \/ capReached(sampleCount)
       THEN pass' = "main" /\ patIdx' = 1 /\ keyIdx' = 0
       ELSE keyIdx' = 1 /\ UNCHANGED <<pass, patIdx>>
    /\ UNCHANGED <<workspaceData, samples, sampleCount>>

\* one turn of the loop over the keys for a priority pattern
PriorityFile ==
    /\ pass = "priority" /\ keyIdx >= 1
    /\ IF keyIdx > Len(keys) \/ capReached(sampleCount)
       THEN patIdx' = patIdx + 1 /\ keyIdx' = 0 /\ UNCHANGED <<samples, sampleCount>>
       ELSE /\ LET filePath == keys[keyIdx]
                   fileName == toLowerCase(Last(filePath))
               IN  IF regexTest(priorityFiles[patIdx], <<fileName>>)
                   THEN Emit(filePath)
                   ELSE UNCHANGED <<samples, sampleCount>>
            /\ keyIdx' = keyIdx + 1
            /\ UNCHANGED patIdx
    /\ UNCHANGED <<workspaceData, pass>>

\* head of the loop over mainFilePatterns
MainPattern ==
    /\ pass = "main" /\ keyIdx = 0
    /\ IF patIdx > Len(mainFilePatterns) \/ capReached(sampleCount)
       THEN pass' = "extension" /\ patIdx' = 1 /\ keyIdx' = 0
       ELSE keyIdx' = 1 /\ UNCHANGED <<pass, patIdx>>
    /\ UNCHANGED <<workspaceData, samples, sampleCount>>

\* one turn of the loop over the keys for a main-file pattern
MainFile ==
    /\ pass = "main" /\ keyIdx >= 1
    /\ IF keyIdx > Len(keys) \/ capReached(sampleCount)
       THEN patIdx' = patIdx + 1 /\ keyIdx' = 0 /\ UNCHANGED <<samples, sampleCount>>
       ELSE /\ LET filePath == keys[keyIdx]
               IN  IF ~alreadyIncluded(samples, filePath)
                      /\ regexTest(mainFilePatterns[patIdx], filePath)
                   THEN Emit(filePath)
                   ELSE UNCHANGED <<samples, sampleCount>>
            /\ keyIdx' = keyIdx + 1
            /\ UNCHANGED patIdx
    /\ UNCHANGED <<workspaceData, pass>>

\* if (sampleCount < maxSamples) before the loop over the source extensions
ExtensionPass ==
    /\ pass = "extension" /\ keyIdx = 0
    /\ IF sampleCount < maxSamples
       THEN keyIdx' = 1 /\ UNCHANGED pass
       ELSE pass' = "returned" /\ UNCHANGED keyIdx
    /\ UNCHANGED <<workspaceData, samples, sampleCount, patIdx>>

\* one turn of the loop over the keys for the source extensions
ExtensionFile ==
    /\ pass = "extension" /\ keyIdx >= 1
    /\ IF keyIdx > Len(keys) \/ capReached(sampleCount)
       THEN pass' = "returned" /\ UNCHANGED <<samples, sampleCount, keyIdx>>
       ELSE /\ LET filePath == keys[keyIdx]
                   ext == toLowerCase(extname(Last(filePath)))
               IN  IF ~alreadyIncluded(samples, filePath)
                      /\ Includes(getSourceFileExtensions(projectType, mainLanguages), ext)
                   THEN Emit(filePath)
                   ELSE UNCHANGED <<samples, sampleCount>>
            /\ keyIdx' = keyIdx + 1
            /\ UNCHANGED pass
    /\ UNCHANGED <<workspaceData, patIdx>>

(* Inputs of getSourceCodeSamples *)

MaxSpecialKeys == 2

MaxSampleFiller == 11

SpecialKeys ==
    {<<"index.js">>, <<"src", "index.js">>, <<"index.ts">>, <<"App.tsx">>, <<"reindex.js">>,
     <<"README.md">>, <<"main.py">>, <<"Main.jsx">>, <<"package.json">>}

\* the object with the given keys, in this order, each holding the text of its file
ContentsOf(ks) == [i \in 1..Len(ks) |-> <<ks[i], Content(ks[i], "text")>>]

FillerKeys(n) == [i \in 1..n |-> <<FillerName(i)>>]

\* d1/index.js, d2/index.js, ...: every key matches the first priority pattern of node
IndexKeys(n) == [i \in 1..n |-> <<DirName(i), "index.js">>]

TypeAndLanguages ==
    {<<"node", <<"javascript">>>>, <<"node", <<"javascript", "react">>>>,
     <<"python", <<"python">>>>, <<"unknown", <<>>>>}

Data(tl, ks, q) ==
    [projectType |-> tl[1], mainLanguages |-> tl[2], fileContents |-> ContentsOf(ks),
     quoted |-> q]

WorkspaceData ==
    {Data(tl, ks \o FillerKeys(n), {}) :
        tl \in TypeAndLanguages,
        ks \in SeqsOfDistinct(SpecialKeys, MaxSpecialKeys),
        n \in {0, MaxSampleFiller}}
    \cup {Data(tl, IndexKeys(MaxSampleFiller), {}) : tl \in TypeAndLanguages}
    \cup {Data(tl, ks, {<<ks[1], ks[2]>>}) :
             tl \in TypeAndLanguages,
             ks \in {k \in SeqsOfDistinct(SpecialKeys, MaxSpecialKeys) : Len(k) = 2}}

\* the call getSourceCodeSamples(workspaceData), before its first loop
SamplesInit ==
    /\ fsTree = FlatTree(<<>>)
    /\ pkg = DefaultPkg
    /\ unreadable = {}
    /\ ignoreDirs = <<>>
    /\ ignoreFiles = <<>>
    /\ fileSize = NoSizes
    /\ \E wd \in WorkspaceData :
          /\ fileContents = wd.fileContents
          /\ projectType = wd.projectType
          /\ mainLanguages = wd.mainLanguages
          /\ quoted = wd.quoted
    /\ files = <<>>
    /\ directories = <<>>
    /\ pc = "samples"
    /\ stack = <<>>
    /\ filesSrc = <<>>
    /\ dirsSrc = <<>>
    /\ listed = {}
    /\ previous = <<>>
    /\ samples = <<>>
    /\ sampleCount = 0
    /\ pass = "priority"
    /\ patIdx = 1
    /\ keyIdx = 0
    /\ cmdPc = "idle"
    /\ workspaceFolders = TRUE
    /\ geminiApiKey = ""
    /\ userContext = Undefined
    /\ selectedProvider = Undefined
    /\ apiKey = ""
    /\ generation = "notCalled"
    /\ thrown = <<>>
    /\ overwrite = Undefined
    /\ readmeFile = "absent"
    /\ shown = <<>>

SamplesNext ==
    \/ PriorityPattern
    \/ PriorityFile
    \/ MainPattern
    \/ MainFile
    \/ ExtensionPass
    \/ ExtensionFile

SamplesSpec == SamplesInit /\ [][SamplesNext]_vars

----------------------------------------------------------------------------
(* ErrorHandler *)

\* an Error object: message is the text in parts, code is "" and status is 0
\* where the object has no such property
Error(isAxiosError, code, status, request, message) ==
    [isAxiosError |-> isAxiosError, code |-> code, status |-> status, request |-> request,
     message |-> message]

\* text.includes(needle) on the texts of the model
Contains ==
    {<<"Failed to generate README with Gemini: ", "Gemini">>,
     <<"API key not valid. Please pass a valid API key.", "API key">>,
     <<"You exceeded your current quota.", "quota">>}

\* error.message.includes(needle)
includes(message, needle) == \E i \in 1..Len(message) : <<message[i], needle>> \in Contains

handleOllamaError(error) ==
    IF error.code = "ECONNREFUSED"
    THEN <<"Could not connect to Ollama. Make sure Ollama is running on your machine.">>
    ELSE IF error.status # 0
    THEN IF error.status = 404
         THEN <<"The specified Ollama model was not found. Please check if the model is installed.">>
         ELSE IF error.status = 400
         THEN <<"Bad request to Ollama API. Please check your inputs.">>
         ELSE <<"Ollama API error: ", ToString(error.status), " - ", "Unknown error">>
    ELSE IF error.request
    THEN <<"No response from Ollama. Please check if Ollama is running correctly.">>
    ELSE <<"Error connecting to Ollama: ">> \o error.message

handleGeminiError(error) ==
    IF includes(error.message, "API key")
    THEN <<"Invalid Gemini API key. Please check your API key and try again.">>
    ELSE IF includes(error.message, "quota")
    THEN <<"Gemini API quota exceeded. Please try again later or check your API usage limits.">>
    ELSE IF includes(error.message, "model")
    THEN <<"The specified Gemini model is not available. Please try a different model.">>
    ELSE IF includes(error.message, "content")
    THEN <<"The content sent to Gemini API was rejected. It may contain prohibited content.">>
    ELSE <<"Gemini API error: ">> \o error.message

handleFileSystemError(error) ==
    IF error.code = "ENOENT" THEN <<"File or directory not found.">>
    ELSE IF error.code = "EACCES"
    THEN <<"Permission denied. Cannot access file or directory.">>
    ELSE IF error.code = "EISDIR" THEN <<"Expected a file but found a directory.">>
    ELSE <<"File system error: ">> \o error.message

\* the message ErrorHandler.showError gives to showErrorMessage
showError(error, context) ==
    IF error.isAxiosError THEN handleOllamaError(error)
    ELSE IF \/ includes(error.message, "Gemini")
            \/ includes(error.message, "API key")
            \/ includes(error.message, "generative")
    THEN handleGeminiError(error)
    ELSE IF error.code \in {"ENOENT", "EACCES", "EISDIR"} THEN handleFileSystemError(error)
    ELSE <<"Error ", IF context # "" THEN "while " \o context ELSE "", ": ">>
         \o error.message

\* throw new Error(`${prefix}${error.message}`) in the catch of a generation function
Wrapped(prefix, error) == Error(FALSE, "", 0, FALSE, <<prefix>> \o error.message)

(* The generate_readme command *)

\* what the axios.post of generateReadmeWithOllama can fail with
OllamaErrors ==
    {Error(TRUE, "ECONNREFUSED", 0, TRUE, <<"connect ECONNREFUSED 127.0.0.1:11434">>),
     Error(TRUE, "ERR_BAD_REQUEST", 404, TRUE, <<"Request failed with status code 404">>),
     Error(TRUE, "ERR_BAD_REQUEST", 400, TRUE, <<"Request failed with status code 400">>),
     Error(TRUE, "ERR_BAD_RESPONSE", 500, TRUE, <<"Request failed with status code 500">>),
     Error(TRUE, "ECONNABORTED", 0, TRUE, <<"timeout of 0ms exceeded">>),
     Error(TRUE, "ERR_INVALID_URL", 0, FALSE, <<"Invalid URL">>)}

\* what the generateContent of generateReadmeWithGemini can fail with
GeminiErrors ==
    {Error(FALSE, "", 0, FALSE, <<"API key not valid. Please pass a valid API key.">>),
     Error(FALSE, "", 0, FALSE, <<"You exceeded your current quota.">>),
     Error(FALSE, "", 0, FALSE, <<"fetch failed">>)}

\* what fs.writeFileSync can fail with
WriteError == Error(FALSE, "EACCES", 0, FALSE, <<"EACCES: permission denied, open 'README.md'">>)

Answers == {Undefined, "", "a library"}

ProviderPicks == {Undefined, "Ollama (Local)", "Gemini (Cloud)"}

YesNo == {Undefined, "Yes", "No"}

\* selectedProvider.label.startsWith('Ollama') ? 'ollama' : 'gemini'
provider == IF selectedProvider = "Ollama (Local)" THEN "ollama" ELSE "gemini"

\* mutant of cancelled: a dismissed prompt goes on
cancelledNever(answer) == FALSE

\* userContext === undefined
cancelled(answer) == answer = Undefined

\* mutant of declined: only the answer 'No' keeps the file
declinedOnlyOnNo(answer) == answer = "No"

\* overwrite !== 'Yes'
declined(answer) == answer # "Yes"

Show(message) == shown' = Append(shown, message)

scanState ==
    <<inputs, files, directories, fileContents, projectType, mainLanguages, pc, stack,
      filesSrc, dirsSrc, listed, previous, sampler>>

\* the head of the handler: the workspace folder and the configuration
StartCommand ==
    /\ cmdPc = "start"
    /\ IF ~workspaceFolders
       THEN /\ Show(<<"No workspace folder found. Please open a folder first.">>)
            /\ cmdPc' = "ended"
       ELSE cmdPc' = "context" /\ UNCHANGED shown
    /\ UNCHANGED <<scanState, workspaceFolders, geminiApiKey, userContext, selectedProvider,
                   apiKey, generation, thrown, overwrite, readmeFile>>

\* step 1: the context prompt
AskUserContext ==
    /\ cmdPc = "context"
    /\ \E answer \in Answers :
          /\ userContext' = answer
          /\ cmdPc' = IF cancelled(answer) THEN "ended" ELSE "provider"
    /\ UNCHANGED <<scanState, workspaceFolders, geminiApiKey, selectedProvider, apiKey,
                   generation, thrown, overwrite, readmeFile, shown>>

\* step 2: the provider pick, and the call of scanWorkspace that follows it
PickProvider ==
    /\ cmdPc = "provider"
    /\ \E pick \in ProviderPicks :
          /\ selectedProvider' = pick
          /\ IF pick = Undefined
             THEN cmdPc' = "ended" /\ UNCHANGED pc
             ELSE cmdPc' = "scan" /\ pc' = "identify"
    /\ UNCHANGED <<inputs, files, directories, fileContents, projectType, mainLanguages, stack,
                   filesSrc, dirsSrc, listed, previous, sampler, workspaceFolders,
                   geminiApiKey, userContext, apiKey, generation, thrown, overwrite,
                   readmeFile, shown>>

\* step 4 for Ollama, after scanWorkspace returned: the model and the endpoint
\* prompts, each with its default for an empty or dismissed answer
ConfigureOllama ==
    /\ cmdPc = "scan" /\ pc = "done"
    /\ provider = "ollama"
    /\ cmdPc' = "generate"
    /\ UNCHANGED <<scanState, workspaceFolders, geminiApiKey, userContext, selectedProvider,
                   apiKey, generation, thrown, overwrite, readmeFile, shown>>

\* step 4 for Gemini, after scanWorkspace returned: the key from the settings
\* or from the prompt, the offer to save it, the model pick
ConfigureGemini ==
    /\ cmdPc = "scan" /\ pc = "done"
    /\ provider = "gemini"
    /\ IF geminiApiKey # ""
       THEN /\ apiKey' = geminiApiKey
            /\ cmdPc' = "generate"
            /\ UNCHANGED <<geminiApiKey, shown>>
       ELSE \E entered \in {Undefined, "", "key"} :
               IF entered \in {Undefined, ""}
               THEN /\ Show(<<"Gemini API key is required.">>)
                    /\ cmdPc' = "ended"
                    /\ UNCHANGED <<apiKey, geminiApiKey>>
               ELSE /\ apiKey' = entered
                    /\ \E saveApiKey \in YesNo :
                          geminiApiKey' = IF saveApiKey = "Yes" THEN entered ELSE geminiApiKey
                    /\ cmdPc' = "generate"
                    /\ UNCHANGED shown
    /\ UNCHANGED <<scanState, workspaceFolders, userContext, selectedProvider, generation,
                   thrown, overwrite, readmeFile>>

\* generateReadmeWithOllama: the text of the response, or the wrapped error,
\* which the catch of the handler gives to showError
GenerateWithOllama ==
    /\ cmdPc = "generate"
    /\ provider = "ollama"
    /\ \/ /\ generation' = "returned"
          /\ cmdPc' = "write"
          /\ UNCHANGED <<thrown, shown>>
       \/ \E error \in OllamaErrors :
             /\ thrown' = <<error>>
             /\ generation' = "threw"
             /\ Show(showError(Wrapped("Failed to generate README: ", error),
                               "generating README"))
             /\ cmdPc' = "ended"
    /\ UNCHANGED <<scanState, workspaceFolders, geminiApiKey, userContext, selectedProvider,
                   apiKey, overwrite, readmeFile>>

\* generateReadmeWithGemini: the text of the response, or the wrapped error
GenerateWithGemini ==
    /\ cmdPc = "generate"
    /\ provider = "gemini"
    /\ \/ /\ generation' = "returned"
          /\ cmdPc' = "write"
          /\ UNCHANGED <<thrown, shown>>
       \/ \E error \in GeminiErrors :
             /\ thrown' = <<error>>
             /\ generation' = "threw"
             /\ Show(showError(Wrapped("Failed to generate README with Gemini: ", error),
                               "generating README"))
             /\ cmdPc' = "ended"
    /\ UNCHANGED <<scanState, workspaceFolders, geminiApiKey, userContext, selectedProvider,
                   apiKey, overwrite, readmeFile>>

\* step 5: the overwrite prompt when README.md exists, then writeFileSync
WriteReadme ==
    /\ cmdPc = "write"
    /\ cmdPc' = "ended"
    /\ \E answer \in (IF readmeFile # "absent" THEN YesNo ELSE {overwrite}) :
          /\ overwrite' = answer
          /\ IF readmeFile # "absent" /\ declined(answer)
             THEN UNCHANGED <<readmeFile, shown>>
             ELSE \/ readmeFile' = "generated" /\ UNCHANGED shown
                  \/ /\ Show(showError(WriteError, "generating README"))
                     /\ UNCHANGED readmeFile
    /\ UNCHANGED <<scanState, workspaceFolders, geminiApiKey, userContext, selectedProvider,
                   apiKey, generation, thrown>>

\* the workspaces the command is run on
CommandTrees ==
    {TestTree(FileEntries(<<"README.md">>)), TestTree(FileEntries(<<"package.json">>)),
     FlatTree(FileEntries(<<"README.md", "package.json">>))}

\* README.md is an entry of the root
ReadmeExists(tree) == \E i \in 1..Len(tree[<<>>]) : tree[<<>>][i] = Entry("README.md", "file")

\* the command is invoked
CommandInit ==
    /\ fsTree \in CommandTrees
    /\ pkg = DefaultPkg
    /\ unreadable = {}
    /\ ignoreDirs = <<>>
    /\ ignoreFiles = <<>>
    /\ fileSize = NoSizes
    /\ files = newResult.files
    /\ directories = newResult.directories
    /\ fileContents = newResult.fileContents
    /\ projectType = newResult.projectType
    /\ mainLanguages = newResult.mainLanguages
    /\ pc = "idle"
    /\ stack = <<>>
    /\ filesSrc = <<>>
    /\ dirsSrc = <<>>
    /\ listed = {}
    /\ previous = <<>>
    /\ samples = <<>>
    /\ sampleCount = 0
    /\ pass = "idle"
    /\ patIdx = 1
    /\ keyIdx = 0
    /\ quoted = {}
    /\ cmdPc = "start"
    /\ workspaceFolders \in BOOLEAN
    /\ geminiApiKey \in {"", "key"}
    /\ userContext = Undefined
    /\ selectedProvider = Undefined
    /\ apiKey = ""
    /\ generation = "notCalled"
    /\ thrown = <<>>
    /\ overwrite = Undefined
    /\ readmeFile = IF ReadmeExists(fsTree) THEN "existing" ELSE "absent"
    /\ shown = <<>>

CommandNext ==
    \/ StartCommand
    \/ AskUserContext
    \/ PickProvider
    \/ CallIdentifyProjectType
    \/ EnterDirectory
    \/ VisitDirectory
    \/ VisitFile
    \/ VisitOther
    \/ ReturnFromDirectory
    \/ ConfigureOllama
    \/ ConfigureGemini
    \/ GenerateWithOllama
    \/ GenerateWithGemini
    \/ WriteReadme

CommandSpec == CommandInit /\ [][CommandNext]_vars

----------------------------------------------------------------------------
(* Properties *)

\* the history variables run parallel to files and directories
HistoryParallel == Len(filesSrc) = Len(files) /\ Len(dirsSrc) = Len(directories)

Count == Len(ObjectKeys(fileContents))

\* C1: every element of files and of directories is the path of the entry
\* relative to the scan root, at every nesting depth, not merely its name
C1_RelativeToScanRoot ==
    /\ HistoryParallel
    /\ \A i \in 1..Len(files) : files[i] = relative(<<>>, filesSrc[i])
    /\ \A i \in 1..Len(directories) : directories[i] = relative(<<>>, dirsSrc[i])

\* C2: in every state of scanWorkspace the number of keys of fileContents is
\* at most calculateMaxFiles(projectType)
C2_QuotaBound == Count <= calculateMaxFiles(projectType)

\* the quota is met exactly and more files than the quota have been listed
C2_Witness ==
    /\ pc = "done"
    /\ projectType = "node"
    /\ Count = calculateMaxFiles(projectType)
    /\ Len(files) > calculateMaxFiles(projectType)

\* C3: once the quota is reached, a visit of a non-ignored file accepted by
\* isLikelyImportantFile appends that file to files and leaves fileContents as it is
C3_ListedNotRead ==
    [][(/\ InLoop
        /\ isFile(CurrentEntry)
        /\ ~Includes(filesToIgnore, CurrentEntry.name)
        /\ isLikelyImportantFile(join(Top.dir, CurrentEntry.name))
        /\ Count >= calculateMaxFiles(projectType))
       => (/\ Len(files') = Len(files) + 1
           /\ SubSeq(files', 1, Len(files)) = files
           /\ filesSrc' = Append(filesSrc, join(Top.dir, CurrentEntry.name))
           /\ fileContents' = fileContents)]_vars

\* a readable text file was listed after the quota was reached and has no content
C3_Witness ==
    /\ pc = "scan"
    /\ unreadable = {}
    /\ Count >= calculateMaxFiles(projectType)
    /\ files # <<>>
    /\ isLikelyImportantFile(Last(filesSrc))
    /\ isTextFile(basename(Last(filesSrc)))
    /\ ~HasKey(fileContents, Last(files))

DefaultIgnoredNames == Range(defaultIgnoreDirs)

\* C4: no default-ignored directory is appended to directories, nothing beneath
\* one is appended to files or directories, and a root holding only ignored
\* directories ends with both empty
C4_NothingUnderIgnored ==
    /\ HistoryParallel
    /\ \A i \in 1..Len(dirsSrc) : Range(dirsSrc[i]) \cap DefaultIgnoredNames = {}
    /\ \A i \in 1..Len(filesSrc) :
          Range(SubSeq(filesSrc[i], 1, Len(filesSrc[i]) - 1)) \cap DefaultIgnoredNames = {}
    /\ (/\ <<>> \in DOMAIN fsTree
        /\ \A i \in 1..Len(fsTree[<<>>]) :
              isDirectory(fsTree[<<>>][i]) /\ fsTree[<<>>][i].name \in DefaultIgnoredNames)
       => (files = <<>> /\ directories = <<>>)

\* the walk is over, it listed a directory that holds a non-empty ignored
\* directory, and it recorded files
C4_Witness ==
    /\ pc = "done"
    /\ files # <<>>
    /\ \E p \in listed : \E i \in 1..Len(fsTree[p]) :
          /\ isDirectory(fsTree[p][i])
          /\ fsTree[p][i].name \in DefaultIgnoredNames
          /\ p # <<>>
          /\ join(p, fsTree[p][i].name) \in DOMAIN fsTree
          /\ fsTree[join(p, fsTree[p][i].name)] # <<>>

\* C5: the root being at depth 0, no directory deeper than maxDepth is listed,
\* so no file inside such a directory is in files or in fileContents
C5_DepthBound ==
    /\ HistoryParallel
    /\ \A p \in listed : Len(p) <= maxDepth
    /\ \A i \in 1..Len(filesSrc) : Len(filesSrc[i]) - 1 <= maxDepth
    /\ \A i \in 1..Len(fileContents) : Len(fileContents[i][2].from) - 1 <= maxDepth

\* the walk is over, it listed a directory at depth maxDepth and read its file,
\* and the tree holds a file in a deeper directory
C5_Witness ==
    /\ pc = "done"
    /\ \E p \in listed : Len(p) = maxDepth
    /\ \E i \in 1..Len(filesSrc) :
          Len(filesSrc[i]) - 1 = maxDepth /\ HasKey(fileContents, files[i])
    /\ \E p \in DOMAIN fsTree :
          Len(p) > maxDepth /\ \E i \in 1..Len(fsTree[p]) : isFile(fsTree[p][i])

\* C6: every path of directories names a directory outside the combined ignore
\* set, accepted by isLikelyImportantDirectory, whose entries the walk listed;
\* stated for a file system on which no call fails
C6_DirectoriesDescended ==
    (pc = "done" /\ unreadable = {})
    => \A i \in 1..Len(dirsSrc) :
          /\ ~Includes(dirsToIgnore, basename(dirsSrc[i]))
          /\ isLikelyImportantDirectory(basename(dirsSrc[i]))
          /\ dirsSrc[i] \in listed

\* the root's file entries alone, every directory dropped
RootFilesOnly(tree) == (<<>> :> SelectSeq(tree[<<>>], isFile))

FreshResult == [projectType |-> "unknown", mainLanguages |-> <<>>, fileContents |-> <<>>]

\* C7: projectType is assigned by the classifier step alone, to what the root's
\* file entries alone give, and no step of the walk changes projectType or
\* mainLanguages
C7_TypeFromRootOnly ==
    [][/\ pc = "identify"
          => projectType' = identifyProjectType(RootFilesOnly(fsTree), unreadable, pkg,
                                                <<>>, FreshResult).projectType
       /\ pc = "scan"
          => (projectType' = projectType /\ mainLanguages' = mainLanguages)]_vars

\* a node project whose walk has listed the marker file of another type below the root
C7_Witness ==
    /\ pc = "done"
    /\ projectType = "node"
    /\ \E i \in 1..Len(filesSrc) : filesSrc[i] = <<"src", "go.mod">>

\* lowercased names of the root's file entries
RootFileNamesLower ==
    {toLowerCase(fsTree[<<>>][i].name) :
        i \in {j \in 1..Len(fsTree[<<>>]) : isFile(fsTree[<<>>][j])}}

MarkerNames ==
    {"package.json", "requirements.txt", "setup.py", "pyproject.toml", "pom.xml",
     "cargo.toml", "go.mod", "gemfile", "composer.json"}

\* the type of the first marker, in table order, present among names
TableOrderType(names) ==
    IF "package.json" \in names THEN "node"
    ELSE IF names \cap {"requirements.txt", "setup.py", "pyproject.toml"} # {} THEN "python"
    ELSE IF "pom.xml" \in names THEN "java"
    ELSE IF "cargo.toml" \in names THEN "rust"
    ELSE IF "go.mod" \in names THEN "go"
    ELSE IF "gemfile" \in names THEN "ruby"
    ELSE IF "composer.json" \in names THEN "php"
    ELSE "unknown"

\* C8: with several marker files in the root, projectType is the type of the
\* first marker in table order, whatever the order of the listing
C8_FirstInTableOrder ==
    (/\ pc # "identify"
     /\ ~ReaddirThrows(fsTree, unreadable, <<>>)
     /\ Cardinality(RootFileNamesLower \cap MarkerNames) >= 2)
    => projectType = TableOrderType(RootFileNamesLower)

\* C9: without a marker file among the root's file entries, projectType is
\* 'unknown' and mainLanguages is empty
C9_NoMarkerNoLanguages ==
    (pc # "identify" /\ RootFileNamesLower \cap MarkerNames = {})
    => (projectType = "unknown" /\ mainLanguages = <<>>)

\* C9 as amended: without a marker file among the root's file entries,
\* projectType is 'unknown' and mainLanguages holds nothing but 'docker', which
\* it holds exactly when the listed root has a dockerfile or docker-compose.yml
C9_NoMarkerOnlyDocker ==
    (pc # "identify" /\ RootFileNamesLower \cap MarkerNames = {})
    => /\ projectType = "unknown"
       /\ \A i \in 1..Len(mainLanguages) : mainLanguages[i] = "docker"
       /\ mainLanguages # <<>>
          <=> /\ ~ReaddirThrows(fsTree, unreadable, <<>>)
              /\ RootFileNamesLower \cap {"dockerfile", "docker-compose.yml"} # {}

\* a root without marker whose compose file gave the docker tag
C9_Witness ==
    /\ pc = "done"
    /\ RootFileNamesLower \cap MarkerNames = {}
    /\ "docker-compose.yml" \in RootFileNamesLower
    /\ "README.md" \in {fsTree[<<>>][i].name : i \in 1..Len(fsTree[<<>>])}
    /\ mainLanguages = <<"docker">>

\* C10: for a node project whose package.json parses, mainLanguages contains
\* 'typescript' when typescript is listed in dependencies or in devDependencies
C10_TypescriptEitherGroup ==
    (/\ pc # "identify"
     /\ projectType = "node"
     /\ ~ReaddirThrows(fsTree, unreadable, <<>>)
     /\ ~ReadThrows(fsTree, unreadable, <<"package.json">>)
     /\ pkg.parses
     /\ "typescript" \in pkg.dependencies \cup pkg.devDependencies)
    => Includes(mainLanguages, "typescript")

\* the root was listed and its package.json was read and parsed
ParsedManifest ==
    /\ ~ReaddirThrows(fsTree, unreadable, <<>>)
    /\ "package.json" \in RootFileNamesLower
    /\ ~ReadThrows(fsTree, unreadable, <<"package.json">>)
    /\ pkg.parses

FrameworkTag(n) == IF n = "next" THEN "nextjs" ELSE n

\* C11: for a node project whose package.json parses, every recognised
\* framework listed in dependencies or in devDependencies has its tag in
\* mainLanguages
C11_FrameworkEitherGroup ==
    (pc # "identify" /\ projectType = "node" /\ ParsedManifest)
    => \A n \in FrameworkNames :
          n \in pkg.dependencies \cup pkg.devDependencies
          => Includes(mainLanguages, FrameworkTag(n))

\* C11 as amended: for a node project whose package.json parses, a recognised
\* framework has its tag in mainLanguages exactly when it is listed in the
\* runtime dependencies
C11_FrameworkInDependencies ==
    (pc # "identify" /\ projectType = "node" /\ ParsedManifest)
    => \A n \in FrameworkNames :
          Includes(mainLanguages, FrameworkTag(n))
          <=> (pkg.hasDependencies /\ n \in pkg.dependencies)

\* a parsed manifest with angular as runtime dependency and another framework
\* as dev dependency only
C11_Witness ==
    /\ pc = "done"
    /\ projectType = "node"
    /\ ParsedManifest
    /\ "angular" \in pkg.dependencies
    /\ pkg.devDependencies \cap FrameworkNames # {}
    /\ Includes(mainLanguages, "angular")

NoDuplicates(s) == \A i, j \in 1..Len(s) : i # j => s[i] # s[j]

\* C12: after identifyProjectType no tag occurs twice in mainLanguages
C12_TagsDistinct == pc # "identify" => NoDuplicates(mainLanguages)

\* C13: in every state of the walk no element occurs twice in files
C13_FilesDistinct == NoDuplicates(files)

\* C14: after a scan every key of fileContents is an element of files or one
\* of the canonical keys 'package.json' and 'README.md'
C14_KeysListedOrTwoCanonical ==
    pc = "done"
    => \A i \in 1..Len(fileContents) :
          \/ Includes(files, fileContents[i][1])
          \/ fileContents[i][1] \in {<<"package.json">>, <<"README.md">>}

CanonicalKeys == {<<"package.json">>, <<"requirements.txt">>, <<"README.md">>, <<"LICENSE">>}

\* C14 as amended: after a scan every key of fileContents is an element of
\* files or one of the four keys the classifier writes: 'package.json',
\* 'requirements.txt', 'README.md', 'LICENSE'
C14_KeysListedOrCanonical ==
    pc = "done"
    => \A i \in 1..Len(fileContents) :
          \/ Includes(files, fileContents[i][1])
          \/ fileContents[i][1] \in CanonicalKeys

\* a scan that stored the licence under 'LICENSE', which is no element of
\* files, next to the content of a file below the root
C14_Witness ==
    /\ pc = "done"
    /\ HasKey(fileContents, <<"LICENSE">>)
    /\ ~Includes(files, <<"LICENSE">>)
    /\ Includes(files, <<"LICENSE.txt">>)
    /\ \E i \in 1..Len(fileContents) : Len(fileContents[i][2].from) > 1

\* C15: when the root cannot be listed, scanWorkspace does not return a result
C15_RootFailureRejects == ReaddirThrows(fsTree, unreadable, <<>>) => pc # "done"

\* C16: a failing read stores nothing of the failed file and a failing
\* listing ends only its own call: when the walk is over, the root and every
\* recorded directory that is within the depth bound and can be listed has
\* been listed, every entry of a listed directory has been handled (its
\* important files recorded, its directories recorded), and below the quota
\* every readable important text file has its key
C16_ErrorsAreLocal ==
    /\ \A i \in 1..Len(fileContents) : fileContents[i][2].from \notin unreadable
    /\ pc = "done"
       => /\ ReaddirThrows(fsTree, unreadable, <<>>) \/ <<>> \in listed
          /\ \A i \in 1..Len(dirsSrc) :
                \/ dirsSrc[i] \in listed
                \/ ReaddirThrows(fsTree, unreadable, dirsSrc[i])
                \/ Len(dirsSrc[i]) > maxDepth
          /\ \A p \in listed : \A i \in 1..Len(fsTree[p]) :
                LET e == fsTree[p][i]
                    entryPath == join(p, e.name)
                IN  /\ (isDirectory(e) /\ descends(e.name))
                       => Includes(dirsSrc, entryPath)
                    /\ (isFile(e) /\ ~Includes(filesToIgnore, e.name)
                        /\ isLikelyImportantFile(entryPath))
                       => /\ Includes(filesSrc, entryPath)
                          /\ (/\ Count < calculateMaxFiles(projectType)
                              /\ isTextFile(e.name)
                              /\ ~ReadThrows(fsTree, unreadable, entryPath))
                             => HasKey(fileContents, <<e.name>>)

\* a file and a directory failed, both are recorded, and the directory after
\* them was listed and the content of its file stored
C16_Witness ==
    /\ pc = "done"
    /\ unreadable = {<<"f.js">>, <<"subdir">>}
    /\ Includes(filesSrc, <<"f.js">>)
    /\ Includes(dirsSrc, <<"subdir">>)
    /\ <<"subdir">> \notin listed
    /\ <<"src">> \in listed
    /\ \E i \in 1..Len(fileContents) : fileContents[i][2].from = <<"src", "index.ts">>

LanguageTags == {"typescript", "react", "vue", "angular", "express", "nextjs"}

Written(i) == i > Len(fileContents) \/ fileContents'[i] # fileContents[i]

\* C18: every content the walk stores obeys the truncation law: a file larger
\* than its ceiling (50*1024 bytes when isLikelyImportantFile accepts it,
\* 30*1024 bytes when only its source extension includes it) is stored as its
\* first ceiling bytes and the marker, a file at or below the ceiling is
\* stored whole with no marker
C18_TruncationLaw ==
    [][pc = "scan"
       => \A i \in 1..Len(fileContents') :
             Written(i)
             => LET v == fileContents'[i][2]
                    size == StatSize(v.from)
                    ceiling == IF isLikelyImportantFile(v.from) THEN 50 * 1024
                               ELSE 30 * 1024
                IN  /\ size > ceiling => (v.bytes = ceiling /\ v.marker)
                    /\ size <= ceiling => (v.bytes = size /\ ~v.marker)
                    /\ size = ceiling + 1 => (v.bytes = ceiling /\ v.marker)]_vars

\* an important file of 50*1024 + 1 bytes is stored truncated to 50*1024 bytes
\* and a source-only file of exactly 30*1024 bytes is stored whole
C18_Witness ==
    /\ pc = "done"
    /\ StatSize(<<"src", "index.ts">>) = 50 * 1024 + 1
    /\ StatSize(<<"src", "Main.jsx">>) = 30 * 1024
    /\ \E i, j \in 1..Len(fileContents) :
          /\ fileContents[i][2] =
                [from |-> <<"src", "index.ts">>, form |-> "text",
                 bytes |-> 50 * 1024, marker |-> TRUE]
          /\ fileContents[j][2] =
                [from |-> <<"src", "Main.jsx">>, form |-> "text",
                 bytes |-> 30 * 1024, marker |-> FALSE]

SamplePaths == [i \in 1..Len(samples) |-> samples[i].path]

\* C19: getSourceCodeSamples never holds more than 10 excerpts, in any pass
\* and at any point of a pass, and sampleCount is their number
C19_AtMostTenSamples == Len(samples) <= 10 /\ sampleCount = Len(samples)

\* the priority pass stopped in the middle of its first pattern: ten of the
\* eleven matching keys were emitted and the call returned
C19_Witness ==
    /\ pass = "returned"
    /\ projectType = "node"
    /\ keys = IndexKeys(MaxSampleFiller)
    /\ SamplePaths = IndexKeys(10)

\* C20: no path is emitted twice by getSourceCodeSamples, across its three
\* passes and within the priority pass
C20_NoPathTwice == NoDuplicates(SamplePaths)

\* index.js matches a priority pattern, two main patterns of a react project
\* and a source extension, and is emitted once; the readme and ten more files
\* are met by the later passes
C20_Witness ==
    /\ pass = "returned"
    /\ Includes(mainLanguages, "react")
    /\ Len(keys) > 10
    /\ SamplePaths[1] = <<"index.js">>
    /\ SamplePaths[2] = <<"README.md">>
    /\ Len(samples) = 10

\* the file name of the path matches the priority pattern number i
MatchesPriority(p, i) == regexTest(priorityFiles[i], <<toLowerCase(Last(p))>>)

IsPriority(p) == \E i \in 1..Len(priorityFiles) : MatchesPriority(p, i)

\* the first priority pattern the file name matches
PriorityRank(p) ==
    CHOOSE i \in 1..Len(priorityFiles) :
        MatchesPriority(p, i) /\ \A j \in 1..(i - 1) : ~MatchesPriority(p, j)

KeyRank(p) == CHOOSE i \in 1..Len(keys) : keys[i] = p

\* C21: in the output of getSourceCodeSamples every excerpt whose file name
\* matches a priority pattern precedes every excerpt that matches none, and
\* the priority excerpts are in pattern order, then in key order of
\* fileContents within a pattern
C21_PriorityFirst ==
    \A i, j \in 1..Len(samples) :
        i < j
        => LET a == samples[i].path
               b == samples[j].path
           IN  /\ IsPriority(b) => IsPriority(a)
               /\ (IsPriority(a) /\ IsPriority(b))
                  => \/ PriorityRank(a) < PriorityRank(b)
                     \/ PriorityRank(a) = PriorityRank(b) /\ KeyRank(a) < KeyRank(b)

\* the key order is App.tsx, index.js, then the other files, and the output has
\* index.js (first pattern) before App.tsx (fourth pattern), and both before
\* the files that match no priority pattern
C21_Witness ==
    /\ pass = "returned"
    /\ keys = <<<<"App.tsx">>, <<"index.js">>>> \o FillerKeys(MaxSampleFiller)
    /\ SamplePaths[1] = <<"index.js">>
    /\ SamplePaths[2] = <<"App.tsx">>
    /\ Len(samples) = 10
    /\ ~IsPriority(SamplePaths[3])

RecognizedTypes == {"node", "python", "java", "rust", "go", "ruby", "php"}

\* the bonus of a project type over the base quota
Bonus(type) == calculateMaxFiles(type) - baseMax

\* C23: the quota a call of the walk works with is the base quota plus a
\* bonus that, for a recognized project type, is positive, at most that of
\* node and at least that of rust; the unknown type alone gets no bonus
C23_BonusByType ==
    \A i \in 1..Len(stack) :
        stack[i].phase = "loop"
        => LET bonus == stack[i].maxFiles - baseMax
           IN  /\ projectType \in RecognizedTypes
                  => bonus > 0 /\ bonus <= Bonus("node") /\ bonus >= Bonus("rust")
               /\ projectType = "unknown" => bonus = 0

\* C24: no file whose name is in the combined file-ignore set is an element of
\* files, and no content of such a file is stored under any key
C24_IgnoredFilesExcluded ==
    /\ \A i \in 1..Len(filesSrc) : ~Includes(filesToIgnore, basename(filesSrc[i]))
    /\ \A i \in 1..Len(fileContents) :
          ~Includes(filesToIgnore, basename(fileContents[i][2].from))

\* C25: during one scan no entry of fileContents is written a second time
C25_KeysWrittenOnce ==
    [][pc # "done"
       => /\ Len(fileContents') >= Len(fileContents)
          /\ \A i \in 1..Len(fileContents) : fileContents'[i] = fileContents[i]]_vars

\* C26: when a scan of a recognized project type ends below the quota, every
\* non-ignored file of a listed directory whose extension is a source
\* extension of the type and whose read succeeds has its key in fileContents
C26_SourceFilesStored ==
    (/\ pc = "done"
     /\ projectType \in RecognizedTypes
     /\ Count < calculateMaxFiles(projectType))
    => \A p \in listed : \A i \in 1..Len(fsTree[p]) :
          LET e == fsTree[p][i]
          IN  (/\ isFile(e)
               /\ ~Includes(filesToIgnore, e.name)
               /\ Includes(getSourceFileExtensions(projectType, mainLanguages),
                           toLowerCase(extname(e.name)))
               /\ ~ReadThrows(fsTree, unreadable, join(p, e.name)))
              => HasKey(fileContents, <<e.name>>)

\* C27: when README.md exists at the workspace root, the command writes it
\* only on the answer 'Yes' to the overwrite prompt; on any other answer or a
\* dismissal the file keeps its content and the command has ended
C27_OverwriteOnlyOnYes ==
    ReadmeExists(fsTree)
    => /\ readmeFile = "generated" => overwrite = "Yes"
       /\ (cmdPc = "ended" /\ generation = "returned" /\ overwrite # "Yes")
          => readmeFile = "existing"
       /\ readmeFile \in {"existing", "generated"}

\* the prompt was answered 'No' and the existing file is as it was
C27_Witness ==
    /\ ReadmeExists(fsTree)
    /\ cmdPc = "ended"
    /\ generation = "returned"
    /\ overwrite = "No"
    /\ readmeFile = "existing"

InitialReadme == IF ReadmeExists(fsTree) THEN "existing" ELSE "absent"

\* C28: README.md is written only after scanWorkspace returned and the
\* generation call returned; a dismissed context prompt or provider pick
\* leaves the scan not started, the generation not called and the file as it
\* was; without a Gemini key, or with a generation call that threw, the file
\* is as it was
C28_WriteAfterScanAndGeneration ==
    /\ readmeFile # InitialReadme => (pc = "done" /\ generation = "returned")
    /\ generation # "notCalled" => pc = "done"
    /\ (cmdPc = "ended" /\ (userContext = Undefined \/ selectedProvider = Undefined))
       => (pc = "idle" /\ generation = "notCalled" /\ readmeFile = InitialReadme)
    /\ (cmdPc = "ended" /\ selectedProvider = "Gemini (Cloud)" /\ apiKey = "")
       => (generation = "notCalled" /\ readmeFile = InitialReadme)
    /\ generation = "threw" => (cmdPc = "ended" /\ readmeFile = InitialReadme)

\* the file was written after a scan and a generation call that returned
C28_Witness ==
    /\ cmdPc = "ended"
    /\ pc = "done"
    /\ Len(files) >= 3
    /\ generation = "returned"
    /\ readmeFile = "generated"
    /\ InitialReadme = "absent"

\* C29: when the HTTP call of generateReadmeWithOllama fails with an axios
\* error, the message shown to the user is what handleOllamaError gives for
\* that error
C29_OllamaErrorMessage ==
    (/\ selectedProvider = "Ollama (Local)"
     /\ thrown # <<>>
     /\ thrown[1].isAxiosError)
    => (shown # <<>> /\ Last(shown) = handleOllamaError(thrown[1]))

====
